---- MODULE Spec2Model ----
(***************************************************************************)
(* Model of the log synchronisation engine of fritz_isp_toolkit            *)
(* (src/modules/isp_toolkit.py, src/modules/classes.py).                   *)
(*                                                                         *)
(* Text is a sequence of one-character strings.  A timestamp is the        *)
(* seconds field of an instant of one fixed minute, so that the device's   *)
(* and the persisted line formats keep their real widths.                  *)
(***************************************************************************)
EXTENDS Integers, Sequences, FiniteSets, TLC

VARIABLES
    file,          \* lines of the local logfile, in file order (text, no "\n")
    file_exists,   \* whether the local logfile exists
    device,        \* the lines the device retains, oldest first (text)
    produced,      \* every line the device has logged so far (history)
    since_sync,    \* lines the device logged since the last cycle (history)
    overrun,       \* some cycle started with more than K unseen lines (history)
    faulted,       \* some cycle met a fetch or write failure (history)
    outcome,       \* how the run of process_isp_logs that just ended ended
    new_entries,   \* new_entries of that run, which it returns when it ends "ok"
    last,          \* the state that run started from
    notified,      \* how notifier.notify() of that run ended, "none" when not invoked
    handed,        \* the entries handed to a notifier so far, in order (history)
    fn_device,     \* the list handed to a function called alone
    fn_file,       \* file_entries handed to get_list_of_new_entries called alone
    fn_result      \* what that call did, NotCalled before it, NoCall when there is none

vars == <<file, file_exists, device, produced, since_sync, overrun, faulted,
          outcome, new_entries, last, notified, handed, fn_device, fn_file, fn_result>>

\* ---------------------------------------------------------------- bounds

\* the number of lines the device retains
K == 2

\* the number of lines the device logs in a run of the model
MaxLines == 4

\* the latest second the device logs at
MaxTime == 3

\* the longest argument of a direct call of get_list_of_new_entries
MaxFnLen == 2

\* -------------------------------------------------------- program constants

\* msg_offset of a line of the local logfile
file_msg_offset == 20

\* msg_offset of a line of the device log
device_msg_offset == 18

\* ------------------------------------------------------------------ text

\* a timestamp is None or the instant of second t
None == <<>>

Instant(t) == <<t>>

Second(timestamp) == timestamp[1]

Digits == <<"0", "1", "2", "3", "4", "5", "6", "7", "8", "9">>

IsDigit(c) == \E i \in 1..10 : Digits[i] = c

DigitVal(c) == (CHOOSE i \in 1..10 : Digits[i] = c) - 1

Whitespace == {" ", "\n"}

Min(a, b) == IF a < b THEN a ELSE b

\* s[:n]
SliceTo(s, n) == SubSeq(s, 1, Min(n, Len(s)))

\* s[n:]
SliceFrom(s, n) == SubSeq(s, Min(n, Len(s)) + 1, Len(s))

\* str.strip()
strip(s) ==
    LET keep == {i \in 1..Len(s) : s[i] \notin Whitespace}
    IN  IF keep = {} THEN <<>>
        ELSE LET lo == CHOOSE i \in keep : \A j \in keep : i <= j
                 hi == CHOOSE i \in keep : \A j \in keep : j <= i
             IN  SubSeq(s, lo, hi)

\* the messages of the entries of a direct call of get_list_of_new_entries
Msgs == {<<"u", "p">>, <<"d", "n">>}

\* the message of the n-th line the device logs
Message(n) == <<"l", "i", "n", "e", " ", Digits[(n % 10) + 1]>>

\* "dd.mm.yy HH:MM:SS", the device's rendering of second t
DeviceStamp(t) ==
    <<"0", "1", ".", "0", "3", ".", "2", "1", " ", "1", "0", ":", "0", "0", ":",
      Digits[(t \div 10) + 1], Digits[(t % 10) + 1]>>

\* a raw line of the device log
DeviceLine(t, m) == DeviceStamp(t) \o <<" ">> \o m

\* the UTC offset of the local timezone, as isoformat() writes it
LocalOffset == <<"+", "0", "1", ":", "0", "0">>

\* timestamp.astimezone().isoformat()
isoformat(timestamp) ==
    <<"2", "0", "2", "1", "-", "0", "3", "-", "0", "1", "T", "1", "0", ":", "0", "0", ":",
      Digits[(Second(timestamp) \div 10) + 1],
      Digits[(Second(timestamp) % 10) + 1]>> \o LocalOffset

\* whether text x reads as template p, whose "#" stand for digits
Reads(x, p) ==
    /\ Len(x) = Len(p)
    /\ \A i \in 1..Len(p) : IF p[i] = "#" THEN IsDigit(x[i]) ELSE x[i] = p[i]

DevicePattern ==
    <<"0", "1", ".", "0", "3", ".", "2", "1", " ", "1", "0", ":", "0", "0", ":", "#", "#">>

IsoPattern ==
    <<"2", "0", "2", "1", "-", "0", "3", "-", "0", "1", "T", "1", "0", ":", "0", "0", ":", "#", "#">>

Seconds(x, i) == Instant(10 * DigitVal(x[i]) + DigitVal(x[i + 1]))

\* dateparser.parse(s): the instant the text names, None when it names none.
\* A date and time followed by a bare sign reads as that local date and time.
dateparser_parse(s) ==
    LET x == strip(s)
    IN  IF Reads(x, DevicePattern) THEN Seconds(x, 16)
        ELSE IF Reads(x, IsoPattern) THEN Seconds(x, 18)
        ELSE IF /\ Len(x) = Len(IsoPattern) + 1
                /\ Reads(SliceTo(x, Len(IsoPattern)), IsoPattern)
                /\ x[Len(x)] \in {"+", "-"}
             THEN Seconds(x, 18)
        ELSE None

\* ------------------------------------------------------------- LogEntry

\* LogEntry(logstring, msg_offset)
LogEntry(logstring, msg_offset) ==
    [timestamp |-> dateparser_parse(SliceTo(logstring, msg_offset)),
     message   |-> strip(SliceFrom(logstring, msg_offset))]

\* str(entry); AttributeError when the timestamp is None
LogEntry_str(entry) == isoformat(entry.timestamp) \o <<" ">> \o entry.message

\* ----------------------------------------------------------------- lists

\* list.sort(key=timestamp) raises TypeError when it has to compare None
sort_raises(entries) ==
    /\ Len(entries) >= 2
    /\ \E i \in 1..Len(entries) : entries[i].timestamp = None

\* e put behind the entries of the sorted s that are not later than it
Insert(e, s) ==
    LET k == Cardinality({i \in 1..Len(s) : Second(s[i].timestamp) <= Second(e.timestamp)})
    IN  SubSeq(s, 1, k) \o <<e>> \o SubSeq(s, k + 1, Len(s))

RECURSIVE SortFirst(_, _)
SortFirst(entries, n) ==
    IF n = 0 THEN <<>> ELSE Insert(entries[n], SortFirst(entries, n - 1))

\* list.sort(key=lambda entry: entry.timestamp), which is stable
sort_by_timestamp(entries) == SortFirst(entries, Len(entries))

Reverse(s) == [i \in 1..Len(s) |-> s[Len(s) + 1 - i]]

IsSorted(entries) ==
    \A i \in 1..Len(entries) - 1 : Second(entries[i].timestamp) <= Second(entries[i + 1].timestamp)

\* ------------------------------------------------------------ the logfile

\* file.readlines(): every line with its line break
readlines(lines) == [i \in 1..Len(lines) |-> lines[i] \o <<"\n">>]

\* load_list_from_logfile without its "except FileNotFoundError"
load_list_from_logfile_uncaught(exists, lines) ==
    LET log_entries == [i \in 1..Len(lines) |->
                            LogEntry(readlines(lines)[i], file_msg_offset)]
    IN  IF ~exists THEN [raised |-> "FileNotFoundError", value |-> <<>>]
        ELSE IF sort_raises(log_entries)
        THEN [raised |-> "TypeError", value |-> <<>>]
        ELSE [raised |-> "none", value |-> sort_by_timestamp(log_entries)]

\* load_list_from_logfile(filepath): an absent file reads as no lines
load_list_from_logfile(exists, lines) ==
    LET log_lines   == IF exists THEN readlines(lines) ELSE <<>>
        log_entries == [i \in 1..Len(log_lines) |->
                            LogEntry(log_lines[i], file_msg_offset)]
    IN  IF sort_raises(log_entries)
        THEN [raised |-> "TypeError", value |-> <<>>]
        ELSE [raised |-> "none", value |-> sort_by_timestamp(log_entries)]

\* the lines "for entry in log_entries: file.write(str(entry) + '\n')" writes
written_lines(log_entries) ==
    [i \in 1..Len(log_entries) |-> LogEntry_str(log_entries[i])]

\* append_list_to_logfile with the file opened with mode "w"
append_list_to_logfile_truncating(log_entries, lines, written) ==
    written_lines(SubSeq(sort_by_timestamp(log_entries), 1, written))

\* append_list_to_logfile without its log_entries.sort()
append_list_to_logfile_unsorted(log_entries, lines, written) ==
    lines \o written_lines(SubSeq(log_entries, 1, written))

\* append_list_to_logfile with the loop over log_entries[1:]
append_list_to_logfile_skipping_first(log_entries, lines, written) ==
    lines \o written_lines(SubSeq(sort_by_timestamp(log_entries), 2, written))

\* the logfile after append_list_to_logfile(log_entries, filepath) wrote the
\* first `written` of the sorted entries to the file opened with mode "a"
append_list_to_logfile(log_entries, lines, written) ==
    lines \o written_lines(SubSeq(sort_by_timestamp(log_entries), 1, written))

\* ------------------------------------------------------------- the device

\* the text of NewDeviceLog: the retained lines, joined by line breaks
RECURSIVE JoinLines(_)
JoinLines(lines) ==
    IF lines = <<>> THEN <<>>
    ELSE IF Len(lines) = 1 THEN lines[1]
    ELSE lines[1] \o <<"\n">> \o JoinLines(Tail(lines))

NewDeviceLog(lines, newest_first) ==
    JoinLines(IF newest_first THEN Reverse(lines) ELSE lines)

\* str.split("\n")
RECURSIVE split(_)
split(s) ==
    LET breaks == {i \in 1..Len(s) : s[i] = "\n"}
    IN  IF breaks = {} THEN <<s>>
        ELSE LET i == CHOOSE b \in breaks : \A c \in breaks : b <= c
             IN  <<SubSeq(s, 1, i - 1)>> \o split(SubSeq(s, i + 1, Len(s)))

\* get_list_from_device(conn), given the text GetDeviceLog returned
get_list_from_device(NewDeviceLogText) ==
    LET log_lines   == split(NewDeviceLogText)
        log_entries == [i \in 1..Len(log_lines) |->
                            LogEntry(log_lines[i], device_msg_offset)]
    IN  IF sort_raises(log_entries)
        THEN [raised |-> "TypeError", value |-> <<>>]
        ELSE [raised |-> "none", value |-> sort_by_timestamp(log_entries)]

\* ---------------------------------------------------------------- the diff

Front(s) == SubSeq(s, 1, Len(s) - 1)

\* the loop with ">=" for ">"
RECURSIVE pop_while_not_older(_, _, _)
pop_while_not_older(device_entries, popped, watermark) ==
    IF device_entries = <<>>
    THEN [raised |-> "IndexError", value |-> <<>>,
          device_entries |-> device_entries, aliased |-> FALSE]
    ELSE IF device_entries[Len(device_entries)].timestamp = None \/ watermark = None
    THEN [raised |-> "TypeError", value |-> <<>>,
          device_entries |-> device_entries, aliased |-> FALSE]
    ELSE IF Second(device_entries[Len(device_entries)].timestamp) >= Second(watermark)
    THEN pop_while_not_older(Front(device_entries),
                             Append(popped, device_entries[Len(device_entries)]),
                             watermark)
    ELSE [raised |-> "none", value |-> sort_by_timestamp(popped),
          device_entries |-> device_entries, aliased |-> FALSE]

\* while device_entries[-1].timestamp > file_entries[-1].timestamp:
\*     new_entries.append(device_entries.pop())
RECURSIVE pop_while_newer(_, _, _)
pop_while_newer(device_entries, popped, watermark) ==
    IF device_entries = <<>>
    THEN [raised |-> "IndexError", value |-> <<>>,
          device_entries |-> device_entries, aliased |-> FALSE]
    ELSE IF device_entries[Len(device_entries)].timestamp = None \/ watermark = None
    THEN [raised |-> "TypeError", value |-> <<>>,
          device_entries |-> device_entries, aliased |-> FALSE]
    ELSE IF Second(device_entries[Len(device_entries)].timestamp) > Second(watermark)
    THEN pop_while_newer(Front(device_entries),
                         Append(popped, device_entries[Len(device_entries)]),
                         watermark)
    ELSE [raised |-> "none", value |-> sort_by_timestamp(popped),
          device_entries |-> device_entries, aliased |-> FALSE]

\* get_list_of_new_entries with file_entries[0] for file_entries[-1]
get_list_of_new_entries_from_oldest(device_entries, file_entries) ==
    IF file_entries = <<>>
    THEN [raised |-> "none", value |-> device_entries,
          device_entries |-> device_entries, aliased |-> TRUE]
    ELSE IF device_entries = <<>>
    THEN [raised |-> "none", value |-> <<>>,
          device_entries |-> device_entries, aliased |-> FALSE]
    ELSE pop_while_newer(device_entries, <<>>, file_entries[1].timestamp)

\* get_list_of_new_entries(device_entries, file_entries): what it raised, what
\* it returned, what it left in device_entries, and whether the list returned
\* is the caller's device_entries itself
get_list_of_new_entries(device_entries, file_entries) ==
    IF file_entries = <<>>
    THEN [raised |-> "none", value |-> device_entries,
          device_entries |-> device_entries, aliased |-> TRUE]
    ELSE IF device_entries = <<>>
    THEN [raised |-> "none", value |-> <<>>,
          device_entries |-> device_entries, aliased |-> FALSE]
    ELSE pop_while_newer(device_entries, <<>>,
                         file_entries[Len(file_entries)].timestamp)

\* -------------------------------------------------------------- the state

NoCall == [raised |-> "no call"]

NotCalled == [raised |-> "not called"]

NoCycle ==
    [file |-> <<>>, file_exists |-> FALSE, since_sync |-> 0,
     outcome |-> "none", new_entries |-> <<>>, fault |-> "none",
     notified |-> "none"]

Init ==
    /\ file = <<>>
    /\ file_exists = FALSE
    /\ device = <<>>
    /\ produced = <<>>
    /\ since_sync = 0
    /\ overrun = FALSE
    /\ faulted = FALSE
    /\ outcome = "none"
    /\ new_entries = <<>>
    /\ last = NoCycle
    /\ notified = "none"
    /\ handed = <<>>
    /\ fn_device = <<>>
    /\ fn_file = <<>>
    /\ fn_result = NoCall

\* the last K of the lines
Retained(lines) ==
    IF Len(lines) <= K THEN lines ELSE SubSeq(lines, Len(lines) - K + 1, Len(lines))

\* the second a raw device line was logged at
LoggedAt(line) == Second(LogEntry(line, device_msg_offset).timestamp)

\* The device logs one more line, not earlier than its last one, and forgets
\* all but its K latest lines.  The run of the script that ended before is over:
\* what it returned is gone.
DeviceLog ==
    \E t \in 1..MaxTime :
        /\ Len(produced) < MaxLines
        /\ produced # <<>> => LoggedAt(produced[Len(produced)]) <= t
        /\ produced' = Append(produced, DeviceLine(t, Message(Len(produced) + 1)))
        /\ device' = Retained(produced')
        /\ since_sync' = since_sync + 1
        /\ outcome' = "none"
        /\ new_entries' = <<>>
        /\ last' = NoCycle
        /\ notified' = "none"
        /\ UNCHANGED <<file, file_exists, overrun, faulted, handed,
                       fn_device, fn_file, fn_result>>

\* how many of the sorted entries file.write() is handed before str(entry)
\* raises AttributeError on a timestamp of None
Writable(entries) ==
    LET bad == {i \in 1..Len(entries) : entries[i].timestamp = None}
    IN  IF bad = {} THEN Len(entries)
        ELSE (CHOOSE i \in bad : \A j \in bad : i <= j) - 1

\* process_isp_logs with a fetch that failed tried again, with success
cycle_raised_fetch_retried(fault, file_entries, device_entries, diff) ==
    IF file_entries.raised # "none" THEN file_entries.raised
    ELSE IF device_entries.raised # "none" THEN device_entries.raised
    ELSE IF diff.raised # "none" THEN diff.raised
    ELSE IF sort_raises(diff.value) THEN "TypeError"
    ELSE "none"

\* the exception that ends process_isp_logs before it opens the logfile to
\* write, "none" when it gets there: nothing is caught on the way
cycle_raised(fault, file_entries, device_entries, diff) ==
    IF fault = "fetch" THEN "RemoteFetchFailure"
    ELSE IF file_entries.raised # "none" THEN file_entries.raised
    ELSE IF device_entries.raised # "none" THEN device_entries.raised
    ELSE IF diff.raised # "none" THEN diff.raised
    ELSE IF sort_raises(diff.value) THEN "TypeError"
    ELSE "none"

\* process_isp_logs(isp_address, isp_uname, isp_pword): one sync cycle.
\* fault: "fetch", the connection or GetDeviceLog fails; "write", the write of
\* entry fail_at + 1 fails, after fail_at entries were written.
process_isp_logs ==
    \E file_entries \in {load_list_from_logfile(file_exists, file)} :
    \E device_entries \in {get_list_from_device(NewDeviceLog(device, newest_first)) :
                               newest_first \in BOOLEAN} :
    \E diff \in {get_list_of_new_entries(device_entries.value, file_entries.value)} :
    \E fault \in {"none", "fetch", "write"}, fail_at \in 0..K :
        LET raised  == cycle_raised(fault, file_entries, device_entries, diff)
            sorted  == sort_by_timestamp(diff.value)
            written == IF fault = "write" THEN fail_at ELSE Writable(sorted)
        IN  /\ fault # "write" => fail_at = 0
            /\ fault = "write" => raised = "none" /\ fail_at < Writable(sorted)
            /\ IF raised # "none"
               THEN /\ outcome' = raised
                    /\ new_entries' = <<>>
                    /\ UNCHANGED <<file, file_exists>>
               ELSE /\ file' = append_list_to_logfile(diff.value, file, written)
                    /\ file_exists' = TRUE
                    /\ outcome' = IF fault = "write" THEN "PersistFailure"
                                  ELSE IF written < Len(sorted) THEN "AttributeError"
                                  ELSE "ok"
                    /\ new_entries' = sorted
            /\ last' = [file |-> file, file_exists |-> file_exists,
                        since_sync |-> since_sync, outcome |-> outcome,
                        new_entries |-> new_entries, fault |-> fault,
                        notified |-> notified]
            /\ since_sync' = 0
            /\ overrun' = (overrun \/ since_sync > K)
            /\ faulted' = (faulted \/ fault # "none")
            /\ UNCHANGED <<device, produced, fn_device, fn_file, fn_result>>

\* notifier.notify() of the notifier main builds around new_entries: the
\* exception it ends with, "ok" when it returns
notify(stdout, gmail, entries, authorised) ==
    IF gmail
    THEN IF ~authorised THEN "AuthFailure"
         ELSE IF entries # <<>> THEN "AttributeError"
         ELSE "ok"
    ELSE IF stdout THEN "ok"
    ELSE "NotImplementedError"

\* main(stdout, gmail): one run of the script.  process_isp_logs runs first,
\* and what it raises ends the run; what it returns is handed to the notifier.
main ==
    /\ process_isp_logs
    /\ IF outcome' = "ok"
       THEN /\ handed' = handed \o new_entries'
            /\ notified' \in {notify(stdout, gmail, new_entries', authorised) :
                                 stdout \in BOOLEAN, gmail \in BOOLEAN,
                                 authorised \in BOOLEAN}
       ELSE /\ handed' = handed
            /\ notified' = "none"

Next == DeviceLog \/ main

Spec == Init /\ [][Next]_vars

\* ------------------------------------------- the functions, called alone

FnEntries == {[timestamp |-> Instant(t), message |-> m] : t \in 1..MaxTime, m \in Msgs}

\* the lists of at most MaxFnLen entries, in any order
AnyLists == UNION {[1..n -> FnEntries] : n \in 0..MaxFnLen}

\* the lists sorted ascending by timestamp, as both callers of
\* get_list_of_new_entries hand them over
SortedLists == {s \in AnyLists : IsSorted(s)}

\* before get_list_of_new_entries(fn_device, fn_file)
InitDiff ==
    /\ file = <<>>
    /\ file_exists = FALSE
    /\ device = <<>>
    /\ produced = <<>>
    /\ since_sync = 0
    /\ overrun = FALSE
    /\ faulted = FALSE
    /\ outcome = "none"
    /\ new_entries = <<>>
    /\ last = NoCycle
    /\ notified = "none"
    /\ handed = <<>>
    /\ fn_device \in SortedLists
    /\ fn_file \in SortedLists
    /\ fn_result = NotCalled

call_get_list_of_new_entries ==
    /\ fn_result = NotCalled
    /\ fn_result' = get_list_of_new_entries(fn_device, fn_file)
    /\ UNCHANGED <<file, file_exists, device, produced, since_sync, overrun, faulted,
                   outcome, new_entries, last, notified, handed, fn_device, fn_file>>

AppendPending == [raised |-> "append pending"]

Appended == [raised |-> "appended"]

\* before append_list_to_logfile(fn_device, filepath), the logfile absent or empty
InitAppend ==
    /\ file = <<>>
    /\ file_exists \in BOOLEAN
    /\ device = <<>>
    /\ produced = <<>>
    /\ since_sync = 0
    /\ overrun = FALSE
    /\ faulted = FALSE
    /\ outcome = "none"
    /\ new_entries = <<>>
    /\ last = NoCycle
    /\ notified = "none"
    /\ handed = <<>>
    /\ fn_device \in AnyLists
    /\ fn_file = <<>>
    /\ fn_result = AppendPending

call_append_list_to_logfile ==
    /\ fn_result = AppendPending
    /\ file' = append_list_to_logfile(fn_device, file, Len(fn_device))
    /\ file_exists' = TRUE
    /\ fn_result' = Appended
    /\ UNCHANGED <<device, produced, since_sync, overrun, faulted,
                   outcome, new_entries, last, notified, handed, fn_device, fn_file>>

\* load_list_from_logfile(filepath), of the logfile append_list_to_logfile
\* has just written fn_device to
call_load_list_from_logfile ==
    /\ fn_result = Appended
    /\ fn_result' = [raised |-> "loaded",
                     loaded |-> load_list_from_logfile(file_exists, file)]
    /\ UNCHANGED <<file, file_exists, device, produced, since_sync, overrun, faulted,
                   outcome, new_entries, last, notified, handed, fn_device, fn_file>>

InitFn == InitDiff \/ InitAppend

NextFn ==
    \/ call_get_list_of_new_entries
    \/ call_append_list_to_logfile
    \/ call_load_list_from_logfile

\* the two functions, each called alone
SpecFn == InitFn /\ [][NextFn]_vars

InitAll == Init \/ InitFn

NextAll == (fn_result = NoCall /\ Next) \/ NextFn

\* the sync cycles, and the two functions called alone
SpecAll == InitAll /\ [][NextAll]_vars

\* ------------------------------------------------------------- the claims

Range(s) == {s[i] : i \in 1..Len(s)}

Count(x, s) == Cardinality({i \in 1..Len(s) : s[i] = x})

IsPrefix(s, t) == Len(s) <= Len(t) /\ SubSeq(t, 1, Len(s)) = s

\* the entry get_list_from_device makes of a raw device line
DeviceEntry(line) == LogEntry(line, device_msg_offset)

\* the line of the logfile that holds a raw device line
Persisted(line) == LogEntry_str(DeviceEntry(line))

\* the entries load_list_from_logfile reads, in file order
FileEntries == [i \in 1..Len(file) |-> LogEntry(file[i] \o <<"\n">>, file_msg_offset)]

\* no two lines of the device log carry the same timestamp
StrictlyIncreasing(lines) ==
    \A i \in 1..Len(lines) - 1 : LoggedAt(lines[i]) < LoggedAt(lines[i + 1])

\* a run of process_isp_logs has just ended, and nothing failed under it
RanUnfaulted == outcome # "none" /\ last.fault = "none"

\* the call of get_list_of_new_entries alone has been made
DiffCalled ==
    fn_result.raised \notin {"no call", "not called", "append pending", "appended", "loaded"}

NewerThanWatermark(e) ==
    Second(e.timestamp) > Second(fn_file[Len(fn_file)].timestamp)

\* C1: for non-empty sorted device_entries and file_entries,
\* get_list_of_new_entries returns normally, and returns exactly the device
\* entries later than the last file entry, in ascending order (all of
\* device_entries when all are later).
C1_ReturnsEntriesAfterWatermark ==
    (DiffCalled /\ fn_device # <<>> /\ fn_file # <<>>) =>
        /\ fn_result.raised = "none"
        /\ fn_result.value = SelectSeq(fn_device, NewerThanWatermark)

\* C2: while the device's timestamps strictly increase, no more than K lines
\* are logged between two cycles and nothing fails under a cycle, the logfile
\* holds every line the device has logged once a cycle has ended.
C2_NoLineLost ==
    (outcome # "none" /\ ~overrun /\ ~faulted /\ StrictlyIncreasing(produced)) =>
        \A i \in 1..Len(produced) : Persisted(produced[i]) \in Range(file)

\* C3: a run of process_isp_logs that follows another with the (non-empty)
\* device buffer unchanged, nothing having failed under any run, appends
\* nothing and returns an empty list.
C3_SecondRunAppendsNothing ==
    (outcome # "none" /\ last.outcome # "none" /\ ~faulted /\ device # <<>>) =>
        /\ outcome = "ok"
        /\ new_entries = <<>>
        /\ file = last.file

\* C4: the logfile is append-only: every step, of a cycle that ends well or
\* fails at any point, leaves the lines it held as a prefix of those it holds,
\* and never removes the file.
C4_AppendOnly == [][IsPrefix(file, file') /\ (file_exists => file_exists')]_vars

\* C4 witness: a cycle has written lines behind those the logfile held.
C4_Witness ==
    /\ outcome = "ok"
    /\ last.file # <<>>
    /\ Len(file) > Len(last.file)

\* C5: the entries of the logfile are in non-decreasing timestamp order in
\* file order, and so is every list of new entries a cycle or
\* get_list_of_new_entries returns; append_list_to_logfile, given entries in
\* any order and an absent or empty logfile, creates the file and writes the
\* entries in ascending order.
C5_Ordered ==
    /\ IsSorted(FileEntries)
    /\ IsSorted(new_entries)
    /\ (DiffCalled /\ fn_result.raised = "none") => IsSorted(fn_result.value)
    /\ fn_result = Appended =>
        /\ file_exists
        /\ Len(file) = Len(fn_device)
        /\ \A i \in 1..Len(fn_device) :
                Count(LogEntry_str(fn_device[i]), file) = Count(fn_device[i], fn_device)

\* C5 witness: two cycles have appended to the logfile, which holds three
\* lines or more.
C5_Witness ==
    /\ outcome = "ok"
    /\ last.file # <<>>
    /\ new_entries # <<>>
    /\ Len(file) >= 3

\* C6: no line of the device log occurs twice in the logfile, and every line
\* of the logfile is a line the device logged.
C6_NoLineTwice ==
    /\ \A i, j \in 1..Len(file) : file[i] = file[j] => i = j
    /\ \A i \in 1..Len(file) : \E j \in 1..Len(produced) : file[i] = Persisted(produced[j])

\* C6 witness: a cycle appended new lines while the device still retained a
\* line the logfile already held.
C6_Witness ==
    /\ outcome = "ok"
    /\ new_entries # <<>>
    /\ \E i \in 1..Len(device) : Persisted(device[i]) \in Range(last.file)

\* C7: with the logfile absent or empty, the cycle meets no error in loading
\* it and, the device log not empty, appends and returns the whole device
\* buffer in ascending order; get_list_of_new_entries(D, []) is D.
C7_FirstSync ==
    /\ (RanUnfaulted /\ last.file = <<>> /\ device # <<>>) =>
        /\ outcome = "ok"
        /\ Len(new_entries) = Len(device)
        /\ \A i \in 1..Len(device) : DeviceEntry(device[i]) \in Range(new_entries)
        /\ IsSorted(new_entries)
        /\ file_exists
        /\ file = written_lines(new_entries)
    /\ (DiffCalled /\ fn_file = <<>>) =>
        /\ fn_result.raised = "none"
        /\ fn_result.value = fn_device

\* C7 witness: a first cycle, the logfile absent, synced a device buffer of
\* two lines.
C7_Witness ==
    /\ outcome = "ok"
    /\ last.file = <<>>
    /\ ~last.file_exists
    /\ Len(device) >= 2
    /\ Len(file) = Len(device)

\* every line the device retains is later than every line the logfile held
\* when the run started
AllRetainedAreNew ==
    \A i \in 1..Len(device), j \in 1..Len(last.file) :
        LoggedAt(device[i]) >
            Second(LogEntry(last.file[j] \o <<"\n">>, file_msg_offset).timestamp)

\* C8: when more than K lines were logged since the last cycle, so that the
\* device retains no line of the non-empty logfile, the cycle ends normally
\* and the logfile then holds every line the device retains.
C8_OverrunStillSyncs ==
    (RanUnfaulted /\ last.file # <<>> /\ last.since_sync > K /\ AllRetainedAreNew) =>
        /\ outcome = "ok"
        /\ \A i \in 1..Len(device) : Persisted(device[i]) \in Range(file)

\* C9: a cycle whose write fails leaves the logfile with all of the cycle's
\* new entries appended or with none of them.
C9_AllOrNothing ==
    outcome = "PersistFailure" =>
        Len(file) - Len(last.file) \in {0, Len(new_entries)}

\* C10: a successful cycle that follows a cycle whose write failed, the device
\* buffer unchanged, leaves each of the failed cycle's new entries in the
\* logfile exactly once.
C10_RecoversAfterPersistFailure ==
    (outcome = "ok" /\ last.outcome = "PersistFailure") =>
        \A i \in 1..Len(last.new_entries) :
            Count(LogEntry_str(last.new_entries[i]), file) = 1

\* C11: no entry without a timestamp enters the pipeline: none is in the list
\* a run hands to append_list_to_logfile, and no run ends on a timestamp of
\* None being compared (TypeError) or written (AttributeError).
C11_NoEntryWithoutTimestamp ==
    /\ \A i \in 1..Len(new_entries) : new_entries[i].timestamp # None
    /\ outcome \notin {"TypeError", "AttributeError"}

\* C12: a cycle whose fetch fails ends with that failure and leaves the
\* logfile as it was.
C12_FetchFailureLeavesLog ==
    (outcome # "none" /\ last.fault = "fetch") =>
        /\ outcome = "RemoteFetchFailure"
        /\ file = last.file
        /\ file_exists = last.file_exists

\* C12 witness: the fetch failed while the device held lines the logfile,
\* not empty, lacked.
C12_Witness ==
    /\ outcome = "RemoteFetchFailure"
    /\ last.file # <<>>
    /\ last.since_sync > 0

\* C13: entries written with str() and read back with the logfile's prefix
\* width are the entries written, timestamp and message: the logfile that
\* append_list_to_logfile wrote a list to loads as that list, sorted.
C13_RoundTrip ==
    fn_result.raised = "loaded" =>
        /\ fn_result.loaded.raised = "none"
        /\ fn_result.loaded.value = sort_by_timestamp(fn_device)

\* C14: what a successful cycle returns is what it appended: the logfile after
\* the cycle is the logfile before it followed by the lines of the entries
\* returned, in the order returned, and by nothing when none is returned.
C14_ReturnedIsAppended ==
    outcome = "ok" => file = last.file \o written_lines(new_entries)

C14_Witness ==
    /\ outcome = "ok"
    /\ new_entries # <<>>
    /\ last.file # <<>>
    /\ file = last.file \o written_lines(new_entries)

\* the device entries at the timestamp of the last file entry
TiedWithWatermark ==
    {i \in 1..Len(fn_device) : fn_device[i].timestamp = fn_file[Len(fn_file)].timestamp}

C16_DiffLeavesArguments ==
    DiffCalled =>
        /\ fn_result.device_entries = fn_device
        /\ ~fn_result.aliased

\* notify() of the run before this one was invoked and raised
NotifyRaised(n) == n \notin {"none", "ok"}

\* C17: a run appends its new entries before it invokes the notifier: what has
\* been handed to a notifier is in the logfile, no entry is handed to a
\* notifier twice, and the run that follows one whose notify() raised, with
\* the device log as it was and nothing failing under it, returns no entry
\* and hands none over.
C17_HandedOnce ==
    /\ \A i \in 1..Len(handed) : LogEntry_str(handed[i]) \in Range(file)
    /\ \A i, j \in 1..Len(handed) : handed[i] = handed[j] => i = j
    /\ (RanUnfaulted /\ last.outcome = "ok" /\ NotifyRaised(last.notified)) =>
           /\ outcome = "ok"
           /\ new_entries = <<>>
           /\ file = last.file

\* entries were appended and handed over, notify() raised, and the next run
\* has ended
C17_Witness ==
    /\ RanUnfaulted
    /\ last.outcome = "ok"
    /\ last.new_entries # <<>>
    /\ NotifyRaised(last.notified)
    /\ Range(last.new_entries) \subseteq Range(handed)
    /\ outcome = "ok"
====
